---- MODULE Spec2Model ----
(***************************************************************************)
(* Google Task List integration: the task coordinator (coordinator.py),    *)
(* the sheet client (google_sheet_clients.py), the task buttons            *)
(* (google_task_list/button.py) and the services (google_task_list/        *)
(* __init__.py).                                                           *)
(*                                                                         *)
(* Python dicts are objects: coordinator.data is a list of references.     *)
(* The model keeps a heap of task dicts and lists of object ids, so that   *)
(* an in-place mutation is seen through every reference to the object.     *)
(*                                                                         *)
(* Time is counted in whole seconds; an ISO timestamp string of second     *)
(* precision is the decimal string of the instant.  A coroutine is cut at  *)
(* its awaits: each action is the code between two awaits.                 *)
(***************************************************************************)
EXTENDS Integers, Sequences, FiniteSets, TLC

\* ---------------------------------------------------------------- bounds
MaxTime == 1
MaxEdits == 1
MaxRows == 2

\* ------------------------------------------------------------- constants
\* Python's None, kept apart from every cell value of the model.
None == "<None>"

\* Task names of the sheet, and the people of the "assigned_to" column.
Names == {"mop", "walk dog"}
Assignees == {"kim", "sam"}
Users == {"lee"}

\* entry.data["category"] of the config entry.
Category == "PT Tasks"

\* Cells of the "cron_frequency" column: empty (one-time task), every second,
\* every second second (six-field expressions, seconds last), and a string
\* croniter rejects.
EverySecond == "* * * * * *"
EveryTwoSeconds == "* * * * * */2"
BadCron == "every day"
CronCells == {"", EverySecond, BadCron}

\* datetime(1, 1, 1): the start of the iteration of a task never completed.
Sentinel == -1

Times == 0..MaxTime

\* ------------------------------------------------------- pure functions

\* datetime.isoformat(timespec="seconds")
IsoFormat(t) == ToString(t)

IsIso(s) == \E t \in Times : ToString(t) = s

\* datetime.fromisoformat, where it does not raise
FromIso(s) == CHOOSE t \in Times : ToString(t) = s

\* Cells of the "last_completed" column: empty, a timestamp, or text that
\* is no timestamp.
BadStamp == "yesterday"
StampCells == {""} \cup {IsoFormat(t) : t \in Times} \cup {BadStamp}

\* croniter(expr, start): the expressions it accepts, and their period.
IsCron(expr) == expr \in {EverySecond, EveryTwoSeconds}

CronPeriod(expr) == IF expr = EverySecond THEN 1 ELSE 2

\* get_next that answers start itself when start is an occurrence.
GetNextInclusive(expr, start) ==
    CHOOSE t \in start..(start + CronPeriod(expr) - 1) : t % CronPeriod(expr) = 0

\* croniter.get_next: the first occurrence strictly after start.
GetNext(expr, start) ==
    CHOOSE t \in (start + 1)..(start + CronPeriod(expr)) : t % CronPeriod(expr) = 0

\* Python truthiness of a str | None.
Truthy(s) == s # None /\ s # ""

\* cron_run_required with the comparison next_run < now.
cron_run_required_strict(cron_expression, last_completed_str, t) ==
    IF ~Truthy(cron_expression)
    THEN last_completed_str = None
    ELSE IF ~IsCron(cron_expression) THEN FALSE
    ELSE IF Truthy(last_completed_str) /\ ~IsIso(last_completed_str) THEN FALSE
    ELSE LET start_time == IF Truthy(last_completed_str)
                           THEN FromIso(last_completed_str)
                           ELSE Sentinel
         IN  GetNext(cron_expression, start_time) < t

\* cron_run_required whose except clause answers True: an expression
\* croniter rejects makes the task due.
cron_run_required_open(cron_expression, last_completed_str, t) ==
    IF ~Truthy(cron_expression)
    THEN last_completed_str = None
    ELSE IF ~IsCron(cron_expression) THEN TRUE
    ELSE IF Truthy(last_completed_str) /\ ~IsIso(last_completed_str) THEN FALSE
    ELSE LET start_time == IF Truthy(last_completed_str)
                           THEN FromIso(last_completed_str)
                           ELSE Sentinel
         IN  GetNext(cron_expression, start_time) <= t

\* cron_run_required: an exception of the try block (a rejected expression,
\* a last_completed that is no timestamp) is caught and answers False.
cron_run_required(cron_expression, last_completed_str, t) ==
    IF ~Truthy(cron_expression)
    THEN last_completed_str = None
    ELSE IF ~IsCron(cron_expression) THEN FALSE
    ELSE IF Truthy(last_completed_str) /\ ~IsIso(last_completed_str) THEN FALSE
    ELSE LET start_time == IF Truthy(last_completed_str)
                           THEN FromIso(last_completed_str)
                           ELSE Sentinel
         IN  GetNext(cron_expression, start_time) <= t

\* ------------------------------------------------------------------ state

\* Object ids of the task dicts: the dicts of coordinator.data and the dicts
\* a fetch has just built.
Ids == 1..(2 * MaxRows)

VARIABLES
    now,                  \* the wall clock, in seconds
    sheet,                \* the task worksheet: its data rows, in order
    heap,                 \* the task dicts, by object id
    data,                 \* coordinator.data: a list of object ids
    last_update_success,  \* DataUpdateCoordinator.last_update_success
    recon,                \* the _async_update_data in flight
    comp,                 \* the async_complete_task in flight
    pending_state,        \* TaskButtonEntity._pending_state, by task_id
    attr_assigned_to,     \* _attr_extra_state_attributes.get("assigned_to"), by task_id
    edits,                \* how often the worksheet has been edited by hand
    call,                 \* a call of a function on its own
    sched,                \* the scheduled refresh, the services and the entry
    last                  \* the step just taken and what it sent out

vars == <<now, sheet, heap, data, last_update_success, recon, comp,
          pending_state, attr_assigned_to, edits, call, sched, last>>

\* An id that holds no dict.
NoObj == [task |-> "", assigned_to |-> "", cron_frequency |-> "",
          last_completed |-> "", state |-> "", visible |-> FALSE]

Range(f) == {f[i] : i \in DOMAIN f}

\* The first index of seq whose element satisfies Test, 0 when none does.
FirstIndex(seq, Test(_)) ==
    IF \E i \in DOMAIN seq : Test(seq[i])
    THEN CHOOSE i \in DOMAIN seq : Test(seq[i]) /\ \A j \in 1..(i - 1) : ~Test(seq[j])
    ELSE 0

\* The last index of seq whose element satisfies Test, 0 when none does.
LastIndex(seq, Test(_)) ==
    IF \E i \in DOMAIN seq : Test(seq[i])
    THEN CHOOSE i \in DOMAIN seq : Test(seq[i]) /\ \A j \in (i + 1)..Len(seq) : ~Test(seq[j])
    ELSE 0

\* for task in tasks: if task.get("task") == task_name: ... break
\* The object id of the first dict of the list with that name, 0 when absent.
FindTask(tasks, h, task_name) ==
    LET Hit(id) == h[id].task = task_name
        i == FirstIndex(tasks, Hit)
    IN  IF i = 0 THEN 0 ELSE tasks[i]

\* ----------------------------------------------------------- the buttons

\* TaskButtonEntity._get_task_data, as an object id (0 for the empty dict).
get_task_data(task_id) == FindTask(data, heap, task_id)

\* TaskButtonEntity.state
ButtonState(task_id) ==
    IF pending_state[task_id] THEN "pending"
    ELSE IF get_task_data(task_id) = 0 THEN "not_completed"
    ELSE heap[get_task_data(task_id)].state

\* _update_internal_state of every button, on the given list and heap:
\* the attributes are a copy of the task dict found at that moment.
AttrsOf(tasks, h) ==
    [n \in DOMAIN pending_state |->
        IF FindTask(tasks, h, n) = 0 THEN None
        ELSE h[FindTask(tasks, h, n)].assigned_to]

\* _handle_coordinator_update of every button.
NoPending == [n \in DOMAIN pending_state |-> FALSE]

\* ------------------------------------------------------- the sheet client

\* A data row of the task worksheet, as get_all_records returns it.
SheetRows == [task : Names, assigned_to : Assignees,
              cron_frequency : CronCells, last_completed : StampCells]

\* GoogleSheetsClient.get_tasks, where it does not raise: one dict per row.
\* An empty cron_frequency cell becomes None.
get_tasks(ws) ==
    [i \in DOMAIN ws |->
        [task |-> ws[i].task,
         assigned_to |-> ws[i].assigned_to,
         cron_frequency |-> IF ws[i].cron_frequency = "" THEN None
                            ELSE ws[i].cron_frequency,
         last_completed |-> ws[i].last_completed,
         visible |-> TRUE]]

\* get_tasks raises ValueError("No tasks found in sheet").
NoTasksFound(ws) == Len(ws) = 0

\* task_ws.find(task_name): the first row whose task cell is the name.
FindRow(ws, task_name) ==
    LET Hit(row) == row.task = task_name IN FirstIndex(ws, Hit)

\* GoogleSheetsClient.update_task_status, where it does not raise.
update_task_status(ws, task_name, last_completed_str) ==
    IF FindRow(ws, task_name) = 0 THEN ws
    ELSE [ws EXCEPT ![FindRow(ws, task_name)].last_completed = last_completed_str]

\* log_action with user and action in each other's column.
LogRowSwapped(t, task_name, action, user) == <<IsoFormat(t), task_name, action, user>>

\* The row GoogleSheetsClient.log_action appends to the log worksheet.
LogRow(t, task_name, action, user) == <<IsoFormat(t), task_name, user, action>>

\* ------------------------------------------------------------ effects
\* What a step sends out of the coordinator, in order.
Publish == [e |-> "publish", a |-> <<>>]
Raise(what) == [e |-> "raise", a |-> <<what>>]
LogMsg(level) == [e |-> "log", a |-> <<level>>]
LogDue(task_name) == [e |-> "log", a |-> <<"debug", task_name>>]
UpdateCell(task_name, value) == [e |-> "update_cell", a |-> <<task_name, "last_completed", value>>]
AppendRow(row) == [e |-> "append_row", a |-> row]
Fire(fields) == [e |-> "fire", a |-> fields]

Step(op, name, eff) == [op |-> op, name |-> name, eff |-> eff]

\* The step l sent something of that kind.
Sent(l, kind) == \E i \in DOMAIN l.eff : l.eff[i].e = kind

\* ------------------------------------------------------- reconciliation

\* The index keeping the first dict of the list for each name.
previous_data_by_name_first(tasks, h) ==
    [n \in Names |-> FindTask(tasks, h, n)]

\* previous_data_by_name = {task.get("task"): task for task in self.data}:
\* the dict keeps the last dict of the list for each name (0: no entry).
previous_data_by_name(tasks, h) ==
    [n \in Names |->
        LET Hit(id) == h[id].task = n
            i == LastIndex(tasks, Hit)
        IN  IF i = 0 THEN 0 ELSE tasks[i]]

NoIndex == [n \in Names |-> 0]

\* The condition of the if of the loop body of _async_update_data: the
\* state taken from the previous dict is completed and the task is due.
Reactivated(task, prev, h, t) ==
    LET previous_task == prev[task.task]
        state == IF previous_task = 0 THEN "not_completed" ELSE h[previous_task].state
    IN  /\ state = "completed"
        /\ task.cron_frequency # None
        /\ cron_run_required(task.cron_frequency, task.last_completed, t)

\* The body of "for task in raw_tasks" of _async_update_data, for one dict.
MergeTask(task, prev, h, t) ==
    LET previous_task == prev[task.task]
        state == IF previous_task = 0 THEN "not_completed" ELSE h[previous_task].state
        visible == IF previous_task = 0 THEN TRUE ELSE h[previous_task].visible
        due == Reactivated(task, prev, h, t)
    IN  [task |-> task.task,
         assigned_to |-> task.assigned_to,
         cron_frequency |-> task.cron_frequency,
         last_completed |-> task.last_completed,
         state |-> IF due THEN "not_completed" ELSE state,
         visible |-> IF due THEN TRUE ELSE visible]

\* updated_tasks of _async_update_data: one merged dict per fetched dict.
UpdatedTasks(raw_tasks, prev, h, t) ==
    [i \in DOMAIN raw_tasks |-> MergeTask(raw_tasks[i], prev, h, t)]

\* _LOGGER.debug("Task '%s' was updated to due ..."), once per task made due.
DueLogs(raw_tasks, prev, h, t) ==
    LET due == SelectSeq(raw_tasks, LAMBDA task : Reactivated(task, prev, h, t))
    IN  [i \in DOMAIN due |-> LogDue(due[i].task)]

\* The k lowest object ids that no kept reference holds.
NewIds(k, keep) ==
    LET free == Ids \ keep
        Nth[i \in 1..k] ==
            CHOOSE id \in free :
                Cardinality({j \in free : j < id}) = i - 1
    IN  [i \in 1..k |-> Nth[i]]

\* The heap once the dicts of list recs stand at ids, the dicts of keep stay
\* and every other dict is garbage.
HeapWith(recs, ids, keep, h) ==
    [id \in Ids |->
        IF \E i \in DOMAIN ids : ids[i] = id
        THEN recs[CHOOSE i \in DOMAIN ids : ids[i] = id]
        ELSE IF id \in keep THEN h[id] ELSE NoObj]

\* Object ids the index of a reconciliation in flight holds: the dicts of the
\* list it was built from stay as long as the index does.
PinnedBy(refresh) ==
    IF refresh.pc = "fetching" THEN {refresh.prev[n] : n \in Names} \ {0} ELSE {}

\* The heap once every dict no reference of keep holds is garbage.
Collect(h, keep) == [id \in Ids |-> IF id \in keep THEN h[id] ELSE NoObj]

\* ------------------------------------------------------------------- Init

\* A row never completed.
Row(task, who, cron) ==
    [task |-> task, assigned_to |-> who, cron_frequency |-> cron,
     last_completed |-> ""]

\* The worksheets the integration is set up on: a recurring task alone, a
\* recurring and a one-time task, two rows of one name, and a task whose
\* cron_frequency is no cron expression beside a recurring one.
InitSheets ==
    {<<Row("mop", "kim", EverySecond)>>,
     <<Row("mop", "kim", EverySecond), Row("walk dog", "sam", "")>>,
     <<Row("mop", "kim", EverySecond), Row("mop", "sam", "")>>,
     <<Row("mop", "kim", BadCron), Row("walk dog", "sam", EverySecond)>>}

NoCall == [pc |-> "none", cron_expression |-> None, last_completed_str |-> None,
           t |-> 0, result |-> FALSE]

NoRecon == [pc |-> "idle", prev |-> NoIndex]
NoComp == [pc |-> "idle", task_name |-> "", user_id |-> "", stamp |-> "", eff |-> <<>>]

\* No _handle_scheduled_refresh is running.
NoTick == [pc |-> "idle", prev |-> NoIndex]

\* The scheduler and the entry once async_setup_entry has returned:
\* __init__ has cleared stop_refresh and registered the first timer, the
\* button platform is set up, the three services are registered and
\* hass.data holds the entry.
InitSched == [stop_refresh |-> FALSE, timer |-> TRUE, tick |-> NoTick,
              platform |-> TRUE, services |-> TRUE, entry_data |-> TRUE]

\* The state once async_setup_entry has returned: the first refresh has
\* merged the sheet into an empty list, one button stands per task name.
Init ==
    \E ws \in InitSheets :
        LET recs == UpdatedTasks(get_tasks(ws), NoIndex, [id \in Ids |-> NoObj], 0)
            ids == NewIds(Len(recs), {})
            h == HeapWith(recs, ids, {}, [id \in Ids |-> NoObj])
        IN  /\ now = 0
            /\ sheet = ws
            /\ heap = h
            /\ data = ids
            /\ last_update_success = TRUE
            /\ recon = NoRecon
            /\ comp = NoComp
            /\ pending_state = [n \in {ws[i].task : i \in DOMAIN ws} |-> FALSE]
            /\ attr_assigned_to =
                   [n \in {ws[i].task : i \in DOMAIN ws} |->
                       h[FindTask(ids, h, n)].assigned_to]
            /\ edits = 0
            /\ call = NoCall
            /\ sched = InitSched
            /\ last = Step("setup", "", <<Publish>>)

\* ---------------------------------------------------------- environment

\* A second passes.
Advance ==
    /\ now < MaxTime
    /\ now' = now + 1
    /\ last' = Step("advance", "", <<>>)
    /\ UNCHANGED <<sched, sheet, heap, data, last_update_success, recon, comp,
                   pending_state, attr_assigned_to, edits, call>>

\* Someone edits the task worksheet: deletes a row, or adds the row of a
\* task never completed.
SheetEdits(ws) ==
    {[j \in 1..(Len(ws) - 1) |-> IF j < i THEN ws[j] ELSE ws[j + 1]] : i \in DOMAIN ws}
    \cup IF Len(ws) < MaxRows
         THEN {Append(ws, Row(n, "sam", c)) : n \in Names, c \in {"", EverySecond}}
         ELSE {}

SheetEdit ==
    /\ edits < MaxEdits
    /\ edits' = edits + 1
    /\ \E ws \in SheetEdits(sheet) \ {sheet} : sheet' = ws
    /\ last' = Step("edit", "", <<>>)
    /\ UNCHANGED <<sched, now, heap, data, last_update_success, recon, comp,
                   pending_state, attr_assigned_to, call>>

\* ------------------------------------------------- _async_update_data

\* _async_update_data up to its first await: the index of the previous dicts.
ReconStart ==
    /\ recon.pc = "idle"
    /\ recon' = [pc |-> "fetching", prev |-> previous_data_by_name(data, heap)]
    /\ last' = Step("refresh_start", "", <<>>)
    /\ UNCHANGED <<sched, now, sheet, heap, data, last_update_success, comp,
                   pending_state, attr_assigned_to, edits, call>>

\* A failed fetch answered by an empty list instead of UpdateFailed.
ReconFailPublishesEmpty ==
    /\ recon.pc = "fetching"
    /\ \E unavailable \in BOOLEAN : unavailable \/ NoTasksFound(sheet)
    /\ recon' = NoRecon
    /\ last_update_success' = FALSE
    /\ data' = <<>>
    /\ heap' = [id \in Ids |-> NoObj]
    /\ pending_state' = NoPending
    /\ attr_assigned_to' = [n \in DOMAIN pending_state |-> None]
    /\ last' = Step("refresh_failed", "", <<LogMsg("warning"), Raise("UpdateFailed")>>)
    /\ UNCHANGED <<sched, now, sheet, comp, edits, call>>

\* load_sheet or get_tasks raises (the store is unreachable, or the sheet has
\* no data row): UpdateFailed.  The coordinator keeps its data; it tells its
\* listeners when the refresh before had succeeded.
ReconFail ==
    /\ recon.pc = "fetching"
    /\ \E unavailable \in BOOLEAN : unavailable \/ NoTasksFound(sheet)
    /\ recon' = NoRecon
    /\ last_update_success' = FALSE
    /\ pending_state' = IF last_update_success THEN NoPending ELSE pending_state
    /\ attr_assigned_to' = IF last_update_success THEN AttrsOf(data, heap)
                           ELSE attr_assigned_to
    /\ heap' = Collect(heap, Range(data) \cup PinnedBy(sched.tick))
    /\ last' = Step("refresh_failed", "", <<LogMsg("warning"), Raise("UpdateFailed")>>)
    /\ UNCHANGED <<sched, now, sheet, data, comp, edits, call>>

\* The rows are fetched and merged; the coordinator takes the returned list
\* as its data and tells its listeners.
ReconMerge ==
    /\ recon.pc = "fetching"
    /\ ~NoTasksFound(sheet)
    /\ LET recs == UpdatedTasks(get_tasks(sheet), recon.prev, heap, now)
           ids == NewIds(Len(recs), PinnedBy(sched.tick))
           h == HeapWith(recs, ids, PinnedBy(sched.tick), heap)
       IN  /\ heap' = h
           /\ data' = ids
           /\ attr_assigned_to' = AttrsOf(ids, h)
    /\ pending_state' = NoPending
    /\ last_update_success' = TRUE
    /\ recon' = NoRecon
    /\ last' = Step("refresh", "",
                     Append(DueLogs(get_tasks(sheet), recon.prev, heap, now), Publish))
    /\ UNCHANGED <<sched, now, sheet, comp, edits, call>>

\* ------------------------------------------------ async_complete_task

\* The dict found, mutated in place: completed, hidden and stamped.
CompletedTask(task, stamp) ==
    [task EXCEPT !.state = "completed", !.visible = FALSE, !.last_completed = stamp]

\* async_complete_task without the return of the not-found branch: the
\* store calls are made for a name the list does not have.
CompleteStartNoReturn(task_name, user_id) ==
    /\ comp.pc = "idle"
    /\ LET found_task == FindTask(data, heap, task_name)
           stamp == IsoFormat(now)
       IN  IF found_task = 0
           THEN /\ last' = Step("complete_not_found", task_name, <<LogMsg("warning")>>)
                /\ comp' = [pc |-> "write", task_name |-> task_name,
                            user_id |-> user_id, stamp |-> stamp,
                            eff |-> <<Publish>>]
                /\ UNCHANGED <<heap, last_update_success, pending_state,
                               attr_assigned_to>>
           ELSE /\ heap' = [heap EXCEPT ![found_task] = CompletedTask(@, stamp)]
                /\ last_update_success' = TRUE
                /\ pending_state' = NoPending
                /\ attr_assigned_to' = AttrsOf(data, heap')
                /\ comp' = [pc |-> "write", task_name |-> task_name,
                            user_id |-> user_id, stamp |-> stamp,
                            eff |-> <<Publish>>]
                /\ last' = Step("complete", task_name, <<Publish>>)
    /\ UNCHANGED <<sched, now, sheet, data, recon, edits, call>>

\* async_complete_task up to its first await: the task is looked up; when
\* found, its dict is mutated and the list is set as the coordinator's data.
CompleteStart(task_name, user_id) ==
    /\ comp.pc = "idle"
    /\ LET found_task == FindTask(data, heap, task_name)
           stamp == IsoFormat(now)
       IN  IF found_task = 0
           THEN /\ last' = Step("complete_not_found", task_name, <<LogMsg("warning")>>)
                /\ UNCHANGED <<heap, last_update_success, comp, pending_state,
                               attr_assigned_to>>
           ELSE /\ heap' = [heap EXCEPT ![found_task] = CompletedTask(@, stamp)]
                /\ last_update_success' = TRUE
                /\ pending_state' = NoPending
                /\ attr_assigned_to' = AttrsOf(data, heap')
                /\ comp' = [pc |-> "write", task_name |-> task_name,
                            user_id |-> user_id, stamp |-> stamp,
                            eff |-> <<Publish>>]
                /\ last' = Step("complete", task_name, <<Publish>>)
    /\ UNCHANGED <<sched, now, sheet, data, recon, edits, call>>

\* What update_task_status sends out when it does not raise.
WriteEffect(ws, task_name, stamp) ==
    IF FindRow(ws, task_name) = 0 THEN LogMsg("warning")
    ELSE UpdateCell(task_name, stamp)

\* The rest of async_complete_task with an except clause that takes the
\* completion back when a store call raises.
CompleteWriteRollback ==
    /\ comp.pc = "write"
    /\ \E write_ok \in BOOLEAN, log_ok \in BOOLEAN :
        IF ~write_ok
        THEN /\ sheet' = sheet
             /\ heap' = IF FindTask(data, heap, comp.task_name) = 0 THEN heap
                        ELSE [heap EXCEPT ![FindTask(data, heap, comp.task_name)] =
                                  [@ EXCEPT !.state = "not_completed", !.visible = TRUE]]
             /\ last' = Step("complete_write_failed", comp.task_name,
                             Append(comp.eff, LogMsg("error")))
        ELSE /\ sheet' = update_task_status(sheet, comp.task_name, comp.stamp)
             /\ heap' = heap
             /\ LET eff == Append(comp.eff,
                                  WriteEffect(sheet, comp.task_name, comp.stamp))
                IN  IF log_ok
                    THEN last' = Step("complete_done", comp.task_name,
                                      Append(eff,
                                             AppendRow(LogRow(now, comp.task_name,
                                                              "completed", comp.user_id))))
                    ELSE last' = Step("complete_log_failed", comp.task_name,
                                      Append(eff, LogMsg("error")))
    /\ comp' = NoComp
    /\ UNCHANGED <<sched, now, data, last_update_success, recon,
                   pending_state, attr_assigned_to, edits, call>>

\* The rest of async_complete_task: await update_task_status, then await
\* log_action.  A call that raises ends the coroutine in the except clause,
\* which logs the error.  log_action changes nothing the coordinator reads,
\* so the two awaits are taken in one step; the order of what is sent is kept.
CompleteWrite ==
    /\ comp.pc = "write"
    /\ \E write_ok \in BOOLEAN, log_ok \in BOOLEAN :
        IF ~write_ok
        THEN /\ sheet' = sheet
             /\ last' = Step("complete_write_failed", comp.task_name,
                             Append(comp.eff, LogMsg("error")))
        ELSE /\ sheet' = update_task_status(sheet, comp.task_name, comp.stamp)
             /\ LET eff == Append(comp.eff,
                                  WriteEffect(sheet, comp.task_name, comp.stamp))
                IN  IF log_ok
                    THEN last' = Step("complete_done", comp.task_name,
                                      Append(eff,
                                             AppendRow(LogRow(now, comp.task_name,
                                                              "completed", comp.user_id))))
                    ELSE last' = Step("complete_log_failed", comp.task_name,
                                      Append(eff, LogMsg("error")))
    /\ comp' = NoComp
    /\ UNCHANGED <<sched, now, heap, data, last_update_success, recon,
                   pending_state, attr_assigned_to, edits, call>>

\* --------------------------------------- async_incomplete_pending_task

\* The dict found with only its state set back: visible is left as it was.
ReopenedTaskStateOnly(task) == [task EXCEPT !.state = "not_completed"]

\* The dict found, mutated in place: not_completed and visible again.

ReopenedTask(task) == [task EXCEPT !.state = "not_completed", !.visible = TRUE]

\* async_incomplete_pending_task that also clears the last_completed cell of
\* the task ("Use an empty string to clear the value").
IncompletePendingTaskClearsCell(task_name) ==
    /\ LET found_task == FindTask(data, heap, task_name)
       IN  IF found_task = 0
           THEN /\ last' = Step("incomplete_not_found", task_name, <<LogMsg("warning")>>)
                /\ UNCHANGED <<heap, sheet, last_update_success, pending_state,
                               attr_assigned_to>>
           ELSE /\ heap' = [heap EXCEPT ![found_task] = ReopenedTask(@)]
                /\ sheet' = update_task_status(sheet, task_name, "")
                /\ last_update_success' = TRUE
                /\ pending_state' = NoPending
                /\ attr_assigned_to' = AttrsOf(data, heap')
                /\ last' = Step("incomplete", task_name,
                                <<Publish, UpdateCell(task_name, "")>>)
    /\ UNCHANGED <<sched, now, data, recon, comp, edits, call>>

IncompletePendingTask(task_name) ==
    /\ LET found_task == FindTask(data, heap, task_name)
       IN  IF found_task = 0
           THEN /\ last' = Step("incomplete_not_found", task_name, <<LogMsg("warning")>>)
                /\ UNCHANGED <<heap, last_update_success, pending_state,
                               attr_assigned_to>>
           ELSE /\ heap' = [heap EXCEPT ![found_task] = ReopenedTask(@)]
                /\ last_update_success' = TRUE
                /\ pending_state' = NoPending
                /\ attr_assigned_to' = AttrsOf(data, heap')
                /\ last' = Step("incomplete", task_name, <<Publish>>)
    /\ UNCHANGED <<sched, now, sheet, data, recon, comp, edits, call>>

\* ------------------------------------------ TaskButtonEntity.async_press

\* The action id without the replace(' ', '_').
ActionIdNoReplace(task_id) ==
    IF task_id = "mop" THEN "CONFIRM_MOP"
    ELSE IF task_id = "walk dog" THEN "CONFIRM_WALK DOG"
    ELSE "CONFIRM_"

\* f"CONFIRM_{self.task_id.replace(' ', '_').upper()}"
ActionId(task_id) ==
    IF task_id = "mop" THEN "CONFIRM_MOP"
    ELSE IF task_id = "walk dog" THEN "CONFIRM_WALK_DOG"
    ELSE "CONFIRM_"

\* event_data of the google_task_list_button_pressed event.
EventData(task_id) ==
    [task_name |-> task_id,
     action_id |-> ActionId(task_id),
     assigned_to |-> attr_assigned_to[task_id],
     category |-> Category]

PendingTask(task) == [task EXCEPT !.state = "pending", !.visible = TRUE]

\* The two guards of async_press.
PressIgnored(task_id) ==
    pending_state[task_id] \/ ButtonState(task_id) = "completed"

async_press(task_id) ==
    /\ task_id \in DOMAIN pending_state
    /\ IF PressIgnored(task_id)
       THEN /\ last' = Step("press_ignored", task_id, <<LogMsg("warning")>>)
            /\ UNCHANGED <<heap, pending_state>>
       ELSE /\ pending_state' = [pending_state EXCEPT ![task_id] = TRUE]
            /\ heap' = IF get_task_data(task_id) = 0 THEN heap
                       ELSE [heap EXCEPT ![get_task_data(task_id)] = PendingTask(@)]
            /\ last' = Step("press", task_id, <<Fire(EventData(task_id))>>)
    /\ UNCHANGED <<sched, now, sheet, data, last_update_success, recon, comp,
                   attr_assigned_to, edits, call>>

\* ------------------------------------------------------------------- Next

Next ==
    \/ Advance
    \/ SheetEdit
    \/ ReconStart
    \/ ReconFail
    \/ ReconMerge
    \/ \E n \in Names, u \in Users : CompleteStart(n, u)
    \/ CompleteWrite
    \/ \E n \in Names : IncompletePendingTask(n)
    \/ \E n \in Names : async_press(n)

Spec == Init /\ [][Next]_vars

TypeOK ==
    /\ now \in Times
    /\ Len(sheet) <= MaxRows
    /\ \A i \in DOMAIN data : heap[data[i]] # NoObj
    /\ \A id \in Ids \ (Range(data) \cup PinnedBy(recon) \cup PinnedBy(sched.tick)) :
           heap[id] = NoObj

\* ----------------------------------------------- the scheduled refresh

\* _handle_scheduled_refresh without the test of stop_refresh.
handle_scheduled_refresh_unguarded ==
    /\ sched.timer
    /\ sched' = [sched EXCEPT
                    !.timer = FALSE,
                    !.tick = [pc |-> "fetching",
                              prev |-> previous_data_by_name(data, heap)]]
    /\ last' = Step("tick_start", "", <<LogMsg("info")>>)
    /\ UNCHANGED <<now, sheet, heap, data, last_update_success, recon, comp,
                   pending_state, attr_assigned_to, edits, call>>

\* The timer registered by _schedule_five_minutely_refresh fires (it fires
\* once): _handle_scheduled_refresh returns when stop_refresh is set, and
\* otherwise runs async_refresh up to the first await of _async_update_data.
handle_scheduled_refresh ==
    /\ sched.timer
    /\ IF sched.stop_refresh
       THEN /\ sched' = [sched EXCEPT !.timer = FALSE]
            /\ last' = Step("tick_skipped", "", <<LogMsg("info")>>)
       ELSE /\ sched' = [sched EXCEPT
                            !.timer = FALSE,
                            !.tick = [pc |-> "fetching",
                                      prev |-> previous_data_by_name(data, heap)]]
            /\ last' = Step("tick_start", "", <<LogMsg("info")>>)
    /\ UNCHANGED <<now, sheet, heap, data, last_update_success, recon, comp,
                   pending_state, attr_assigned_to, edits, call>>

\* The end of a scheduled refresh whose fetch raised, without the call of
\* _schedule_five_minutely_refresh.
TickFailNoReschedule ==
    /\ sched.tick.pc = "fetching"
    /\ \E unavailable \in BOOLEAN : unavailable \/ NoTasksFound(sheet)
    /\ sched' = [sched EXCEPT !.tick = NoTick]
    /\ last_update_success' = FALSE
    /\ pending_state' = IF last_update_success THEN NoPending ELSE pending_state
    /\ attr_assigned_to' = IF last_update_success THEN AttrsOf(data, heap)
                           ELSE attr_assigned_to
    /\ heap' = Collect(heap, Range(data) \cup PinnedBy(recon))
    /\ last' = Step("tick_failed", "", <<LogMsg("warning"), Raise("UpdateFailed")>>)
    /\ UNCHANGED <<now, sheet, data, recon, comp, edits, call>>

\* The fetch of a scheduled refresh raises: async_refresh takes the
\* UpdateFailed and returns, and _handle_scheduled_refresh registers the next
\* timer.
TickFail ==
    /\ sched.tick.pc = "fetching"
    /\ \E unavailable \in BOOLEAN : unavailable \/ NoTasksFound(sheet)
    /\ sched' = [sched EXCEPT !.tick = NoTick, !.timer = TRUE]
    /\ last_update_success' = FALSE
    /\ pending_state' = IF last_update_success THEN NoPending ELSE pending_state
    /\ attr_assigned_to' = IF last_update_success THEN AttrsOf(data, heap)
                           ELSE attr_assigned_to
    /\ heap' = Collect(heap, Range(data) \cup PinnedBy(recon))
    /\ last' = Step("tick_failed", "", <<LogMsg("warning"), Raise("UpdateFailed")>>)
    /\ UNCHANGED <<now, sheet, data, recon, comp, edits, call>>

\* The fetch of a scheduled refresh returns: the rows are merged and
\* published, and _handle_scheduled_refresh registers the next timer.
TickMerge ==
    /\ sched.tick.pc = "fetching"
    /\ ~NoTasksFound(sheet)
    /\ LET recs == UpdatedTasks(get_tasks(sheet), sched.tick.prev, heap, now)
           ids == NewIds(Len(recs), PinnedBy(recon))
           h == HeapWith(recs, ids, PinnedBy(recon), heap)
       IN  /\ heap' = h
           /\ data' = ids
           /\ attr_assigned_to' = AttrsOf(ids, h)
    /\ pending_state' = NoPending
    /\ last_update_success' = TRUE
    /\ sched' = [sched EXCEPT !.tick = NoTick, !.timer = TRUE]
    /\ last' = Step("tick", "",
                     Append(DueLogs(get_tasks(sheet), sched.tick.prev, heap, now),
                            Publish))
    /\ UNCHANGED <<now, sheet, recon, comp, edits, call>>

\* ------------------------------------------------ services and unload

\* The refresh_tasks service: async_request_refresh runs a refresh unless one
\* it started is still running.
handle_refresh_tasks ==
    /\ sched.services
    /\ ReconStart

\* The set_task_completed service.
handle_complete_task(task_name, user_name) ==
    /\ sched.services
    /\ CompleteStart(task_name, user_name)

\* What async_forward_entry_unload answers: a platform that is set up
\* unloads or fails to; one that is not set up has nothing to unload, its
\* unload raises inside the config entry and the answer is False.
UnloadResults == IF sched.platform THEN BOOLEAN ELSE {FALSE}

\* async_unload_entry without its "if unload_ok": the services, the flag and
\* the entry are handled whatever the platform answered.
async_unload_entry_unguarded ==
    /\ \E unload_ok \in UnloadResults :
        /\ pending_state' = IF unload_ok THEN [n \in {} |-> FALSE] ELSE pending_state
        /\ attr_assigned_to' = IF unload_ok THEN [n \in {} |-> None]
                               ELSE attr_assigned_to
        /\ IF sched.entry_data
           THEN /\ sched' = [sched EXCEPT !.platform = @ /\ ~unload_ok,
                                          !.services = FALSE,
                                          !.stop_refresh = TRUE,
                                          !.entry_data = FALSE]
                /\ last' = Step("unload", "", <<>>)
           ELSE /\ sched' = [sched EXCEPT !.platform = @ /\ ~unload_ok,
                                          !.services = FALSE]
                /\ last' = Step("unload_raised", "", <<Raise("KeyError")>>)
    /\ UNCHANGED <<now, sheet, heap, data, last_update_success, recon, comp,
                   edits, call>>

\* async_unload_entry: when the platform unloads, the services are removed,
\* stop_refresh is set and the entry is popped from hass.data (a KeyError
\* when it is not there); otherwise nothing is done and False is returned.
\* The buttons of an unloaded platform are gone.
async_unload_entry ==
    /\ \E unload_ok \in UnloadResults :
        IF ~unload_ok
        THEN /\ last' = Step("unload_failed", "", <<>>)
             /\ UNCHANGED <<sched, pending_state, attr_assigned_to>>
        ELSE /\ pending_state' = [n \in {} |-> FALSE]
             /\ attr_assigned_to' = [n \in {} |-> None]
             /\ IF sched.entry_data
                THEN /\ sched' = [sched EXCEPT !.platform = FALSE,
                                               !.services = FALSE,
                                               !.stop_refresh = TRUE,
                                               !.entry_data = FALSE]
                     /\ last' = Step("unload", "", <<>>)
                ELSE /\ sched' = [sched EXCEPT !.platform = FALSE,
                                               !.services = FALSE]
                     /\ last' = Step("unload_raised", "", <<Raise("KeyError")>>)
    /\ UNCHANGED <<now, sheet, heap, data, last_update_success, recon, comp,
                   edits, call>>

\* The integration set up on a sheet of a recurring and a one-time task.
InitTick ==
    /\ Init
    /\ sheet = <<Row("mop", "kim", EverySecond), Row("walk dog", "sam", "")>>

NextTick ==
    \/ handle_scheduled_refresh
    \/ TickFail
    \/ TickMerge
    \/ handle_refresh_tasks
    \/ ReconFail
    \/ ReconMerge
    \/ \E n \in Names, u \in Users : handle_complete_task(n, u)
    \/ CompleteWrite
    \/ async_unload_entry

SpecTick == InitTick /\ [][NextTick]_vars

\* The timer fires when its time has come, and a fetch returns or raises.
SpecTickFair ==
    /\ SpecTick
    /\ WF_vars(handle_scheduled_refresh)
    /\ WF_vars(TickFail \/ TickMerge)

\* ------------------------------------------- cron_run_required on its own

\* The arguments cron_run_required is called with: a cron expression, None
\* or text; a timestamp, None, the empty string or text; a time.
CallExprs == {None, "", EverySecond, EveryTwoSeconds, BadCron}
CallStamps == {None, "", BadStamp} \cup {IsoFormat(t) : t \in Times}
CallTimes == 0..(MaxTime + 1)

\* A coordinator at rest, and one call of cron_run_required about to run.
InitEval ==
    /\ now = 0
    /\ sheet = <<Row("mop", "kim", EverySecond)>>
    /\ heap = HeapWith(UpdatedTasks(get_tasks(sheet), NoIndex, [id \in Ids |-> NoObj], 0),
                       <<1>>, {}, [id \in Ids |-> NoObj])
    /\ data = <<1>>
    /\ last_update_success = TRUE
    /\ recon = NoRecon
    /\ comp = NoComp
    /\ pending_state = [n \in {"mop"} |-> FALSE]
    /\ attr_assigned_to = [n \in {"mop"} |-> "kim"]
    /\ edits = 0
    /\ sched = InitSched
    /\ last = Step("setup", "", <<Publish>>)
    /\ \E e \in CallExprs, s \in CallStamps, t \in CallTimes :
           call = [pc |-> "called", cron_expression |-> e, last_completed_str |-> s,
                   t |-> t, result |-> FALSE]

\* The call returns.
Evaluate ==
    /\ call.pc = "called"
    /\ call' = [call EXCEPT
                    !.pc = "returned",
                    !.result = cron_run_required(call.cron_expression,
                                                 call.last_completed_str, call.t)]
    /\ UNCHANGED <<sched, now, sheet, heap, data, last_update_success, recon, comp,
                   pending_state, attr_assigned_to, edits, last>>

NextEval == Evaluate

SpecEval == InitEval /\ [][NextEval]_vars

\* ------------------------------------------------- get_tasks on its own

\* The columns a header row of the task worksheet can have.
Columns == {"task", "assigned_to", "cron_frequency", "last_completed"}
Headers == SUBSET Columns \ {{}}

\* required_fields of get_tasks.
required_fields == {"task", "cron_frequency", "last_completed"}

\* The keys of a cleaned_task: the five get_tasks sets, and every key of the
\* record ("Add any remaining fields").
cleaned_keys(header) ==
    {"task", "assigned_to", "cron_frequency", "last_completed", "visible"} \cup header

\* cleaned_task of get_tasks for one record of get_all_records, which has the
\* keys of the header: task_lower.get(key, default) for each known field.
cleaned_task(header, row) ==
    [task |-> IF "task" \in header THEN row.task ELSE "",
     assigned_to |-> IF "assigned_to" \in header THEN row.assigned_to ELSE "unknown",
     cron_frequency |-> IF "cron_frequency" \in header /\ row.cron_frequency # ""
                        THEN row.cron_frequency ELSE None,
     last_completed |-> IF "last_completed" \in header THEN row.last_completed ELSE "",
     visible |-> TRUE]

\* GoogleSheetsClient.get_tasks on a worksheet with that header: the message
\* of the ValueError it raises (None when it returns) and the list returned.
get_tasks_from(header, ws) ==
    LET normalized == [i \in DOMAIN ws |-> cleaned_task(header, ws[i])]
        found_fields == cleaned_keys(header)
        missing_fields == required_fields \ found_fields
    IN  IF Len(normalized) = 0
        THEN [raised |-> "No tasks found in sheet", tasks |-> <<>>]
        ELSE IF missing_fields # {}
        THEN [raised |-> "Missing required column(s)", tasks |-> <<>>]
        ELSE [raised |-> None, tasks |-> normalized]

\* The worksheets get_tasks is called on: up to two rows.
FetchRows == {Row("mop", "kim", EverySecond), Row("walk dog", "sam", "")}
FetchSheets == {<<>>} \cup {<<r>> : r \in FetchRows}
               \cup {<<r, q>> : r \in FetchRows, q \in FetchRows}

\* A coordinator at rest, and one call of get_tasks about to run.
InitFetch ==
    /\ now = 0
    /\ sheet = <<Row("mop", "kim", EverySecond)>>
    /\ heap = HeapWith(UpdatedTasks(get_tasks(sheet), NoIndex, [id \in Ids |-> NoObj], 0),
                       <<1>>, {}, [id \in Ids |-> NoObj])
    /\ data = <<1>>
    /\ last_update_success = TRUE
    /\ recon = NoRecon
    /\ comp = NoComp
    /\ pending_state = [n \in {"mop"} |-> FALSE]
    /\ attr_assigned_to = [n \in {"mop"} |-> "kim"]
    /\ edits = 0
    /\ sched = InitSched
    /\ last = Step("setup", "", <<Publish>>)
    /\ \E header \in Headers, ws \in FetchSheets :
           call = [pc |-> "called", header |-> header, ws |-> ws,
                   result |-> [raised |-> None, tasks |-> <<>>]]

\* The call returns or raises.
Fetch ==
    /\ call.pc = "called"
    /\ call' = [call EXCEPT !.pc = "returned",
                            !.result = get_tasks_from(call.header, call.ws)]
    /\ UNCHANGED <<now, sheet, heap, data, last_update_success, recon, comp,
                   pending_state, attr_assigned_to, edits, sched, last>>

NextFetch == Fetch

SpecFetch == InitFetch /\ [][NextFetch]_vars

\* ---------------------------- _schedule_five_minutely_refresh on its own

\* A UTC datetime: the day (counted from the day of the first call), the
\* hour, the minute, the second and the microsecond.
SomeHours == {0, 9, 23}
SomeSeconds == {0, 30, 59}
SomeMicroseconds == {0, 1, 999999}
DateTimes == [day : {0}, hour : SomeHours, minute : 0..59,
              second : SomeSeconds, microsecond : SomeMicroseconds]

\* dt + timedelta(minutes=k), for k below 60: the minutes carry into the
\* hour and the hours into the day.
PlusMinutes(dt, k) ==
    LET minute == dt.minute + k
        hour == dt.hour + (IF minute >= 60 THEN 1 ELSE 0)
    IN  [dt EXCEPT !.minute = minute % 60,
                   !.hour = hour % 24,
                   !.day = dt.day + (IF hour >= 24 THEN 1 ELSE 0)]

\* next_run computed from the time of the call itself, without the
\* timedelta(minutes=5).
next_run_floor(t) ==
    LET next_run == [t EXCEPT !.second = 0, !.microsecond = 0]
        minute == next_run.minute - (next_run.minute % 5)
    IN  [next_run EXCEPT !.minute = minute]

\* next_run of _schedule_five_minutely_refresh, called at t: five minutes
\* later, second and microsecond replaced by zero, the minute lowered to a
\* multiple of five.
next_run_at(t) ==
    LET next_run == [PlusMinutes(t, 5) EXCEPT !.second = 0, !.microsecond = 0]
        minute == next_run.minute - (next_run.minute % 5)
    IN  [next_run EXCEPT !.minute = minute]

\* A coordinator at rest, and one call of _schedule_five_minutely_refresh
\* about to run at some time of the day.
InitSchedule ==
    /\ now = 0
    /\ sheet = <<Row("mop", "kim", EverySecond)>>
    /\ heap = HeapWith(UpdatedTasks(get_tasks(sheet), NoIndex, [id \in Ids |-> NoObj], 0),
                       <<1>>, {}, [id \in Ids |-> NoObj])
    /\ data = <<1>>
    /\ last_update_success = TRUE
    /\ recon = NoRecon
    /\ comp = NoComp
    /\ pending_state = [n \in {"mop"} |-> FALSE]
    /\ attr_assigned_to = [n \in {"mop"} |-> "kim"]
    /\ edits = 0
    /\ sched = [InitSched EXCEPT !.timer = FALSE]
    /\ last = Step("setup", "", <<Publish>>)
    /\ \E t \in DateTimes :
           call = [pc |-> "called", utcnow |-> t, next_run |-> t]

\* The call computes next_run and registers the timer for it.
schedule_five_minutely_refresh ==
    /\ call.pc = "called"
    /\ call' = [call EXCEPT !.pc = "returned", !.next_run = next_run_at(call.utcnow)]
    /\ sched' = [sched EXCEPT !.timer = TRUE]
    /\ UNCHANGED <<now, sheet, heap, data, last_update_success, recon, comp,
                   pending_state, attr_assigned_to, edits, last>>

NextSchedule == schedule_five_minutely_refresh

SpecSchedule == InitSchedule /\ [][NextSchedule]_vars

\* ================================================================ claims

\* The task names of a list of dicts.
NamesOf(tasks, h) == {h[tasks[i]].task : i \in DOMAIN tasks}

\* The store is written to: a cell is written or a row is appended.
StoreWrite(l) == Sent(l, "update_cell") \/ Sent(l, "append_row")

\* C1: a reconciliation whose fetch fails (the store is unreachable, or the
\* sheet has no data row) raises UpdateFailed and publishes nothing: the list
\* and every dict of it are after the attempt what they were before it, and
\* the start of an attempt changes nothing either.
C1_FetchFailureKeepsList ==
    [][/\ last'.op = "refresh_failed" =>
            /\ data' = data
            /\ heap' = heap
            /\ Sent(last', "raise")
            /\ ~Sent(last', "publish")
       /\ last'.op = "refresh_start" => (data' = data /\ heap' = heap)
       /\ (recon.pc = "fetching" /\ NoTasksFound(sheet) /\ recon'.pc = "idle") =>
            last'.op = "refresh_failed"]_vars

\* C1 witness: a fetch of a sheet without rows has failed while the list
\* holds a completed task.
C1_Witness ==
    /\ last.op = "refresh_failed"
    /\ NoTasksFound(sheet)
    /\ \E i \in DOMAIN data : heap[data[i]].state = "completed"

\* C2: completing or reopening a name no dict of the list has leaves the list
\* and its dicts unchanged, publishes nothing, writes nothing to the store and
\* leaves no write behind to be done later.
C2_UnknownNameNoOp ==
    [][(/\ last'.op \in {"complete", "complete_not_found",
                         "incomplete", "incomplete_not_found"}
        /\ last'.name \notin NamesOf(data, heap)) =>
            /\ data' = data
            /\ heap' = heap
            /\ sheet' = sheet
            /\ comp' = comp
            /\ ~Sent(last', "publish")
            /\ ~StoreWrite(last')]_vars

\* C2 witness: a completion of a name absent from a list of two tasks has
\* just returned.
C2_Witness ==
    /\ last.op = "complete_not_found"
    /\ last.name \notin NamesOf(data, heap)
    /\ Len(data) = 2

\* C3: completing a name of the list sets the first dict of that name, and no
\* other, to completed, hidden and stamped with the time of the call, and
\* publishes; then, the store calls succeeding on a sheet that has a row of the
\* name, the stamp is written to the first such row and after it one audit row
\* (timestamp, task, actor, "completed") is appended: publish, cell, row.
C3_CompleteOrder ==
    [][/\ (last'.op \in {"complete", "complete_not_found"}
           /\ last'.name \in NamesOf(data, heap)) =>
            LET found_task == FindTask(data, heap, last'.name)
            IN  /\ last'.op = "complete"
                /\ data' = data
                /\ heap'[found_task].state = "completed"
                /\ heap'[found_task].visible = FALSE
                /\ heap'[found_task].last_completed = IsoFormat(now)
                /\ heap'[found_task].task = last'.name
                /\ \A id \in Ids \ {found_task} : heap'[id] = heap[id]
                /\ last'.eff = <<Publish>>
                /\ comp'.pc = "write"
                /\ sheet' = sheet
       /\ (comp.pc = "write" /\ last'.op = "complete_done"
           /\ FindRow(sheet, comp.task_name) # 0) =>
            /\ last'.eff = <<Publish,
                             UpdateCell(comp.task_name, comp.stamp),
                             AppendRow(<<IsoFormat(now), comp.task_name,
                                         comp.user_id, "completed">>)>>
            /\ sheet'[FindRow(sheet, comp.task_name)].last_completed = comp.stamp
            /\ \A i \in DOMAIN sheet : i # FindRow(sheet, comp.task_name) =>
                   sheet'[i] = sheet[i]
       /\ StoreWrite(last') => (comp.pc = "write" /\ last'.eff[1] = Publish)
       /\ Sent(last', "append_row") =>
            (Len(last'.eff) = 3 /\ last'.eff[3].e = "append_row")]_vars

\* C3 witness: a completion of the second of two names has published, written
\* the cell and appended the audit row.
C3_Witness ==
    /\ last.op = "complete_done"
    /\ Len(last.eff) = 3
    /\ last.eff[2].e = "update_cell"
    /\ Len(sheet) = 2
    /\ sheet[2].task = last.name
    /\ sheet[2].last_completed # ""

\* C4: a store call of a completion that raises is logged as an error and not
\* raised to the caller, and the step changes no dict of the list: the task
\* stays as the completion published it.
C4_WriteFailureNoRollback ==
    [][last'.op \in {"complete_write_failed", "complete_log_failed"} =>
            /\ comp.pc = "write"
            /\ data' = data
            /\ heap' = heap
            /\ ~Sent(last', "raise")
            /\ last'.eff[Len(last'.eff)] = LogMsg("error")
            /\ last'.eff[1] = Publish
            /\ comp'.pc = "idle"]_vars

\* C4 witness: the cell write of a completion has raised, and the task is
\* completed, hidden and stamped in the list while its row has no stamp.
C4_Witness ==
    /\ last.op = "complete_write_failed"
    /\ FindTask(data, heap, last.name) # 0
    /\ heap[FindTask(data, heap, last.name)].state = "completed"
    /\ heap[FindTask(data, heap, last.name)].visible = FALSE
    /\ heap[FindTask(data, heap, last.name)].last_completed # ""
    /\ FindRow(sheet, last.name) # 0
    /\ sheet[FindRow(sheet, last.name)].last_completed = ""

\* C5: a press of the button of a task that is not_completed in the list sets
\* the first dict of that name to pending and visible, fires one event with
\* the task name, the assignee, the category and the confirmation id, and
\* writes nothing to the store.
C5_PressSetsPending ==
    [][\A n \in Names :
        (/\ last'.op \in {"press", "press_ignored"}
         /\ last'.name = n
         /\ FindTask(data, heap, n) # 0
         /\ heap[FindTask(data, heap, n)].state = "not_completed") =>
            LET task == FindTask(data, heap, n)
            IN  /\ heap' = [heap EXCEPT ![task].state = "pending",
                                        ![task].visible = TRUE]
                /\ data' = data
                /\ last'.eff = <<Fire([task_name |-> n,
                                       action_id |-> IF n = "mop" THEN "CONFIRM_MOP"
                                                     ELSE "CONFIRM_WALK_DOG",
                                       assigned_to |-> heap[task].assigned_to,
                                       category |-> "PT Tasks"])>>
                /\ sheet' = sheet
                /\ comp' = comp]_vars

\* C5 witness: the button of a task with a space in its name has been pressed
\* and the task is pending in the list.
C5_Witness ==
    /\ last.op = "press"
    /\ last.name = "walk dog"
    /\ FindTask(data, heap, "walk dog") # 0
    /\ heap[FindTask(data, heap, "walk dog")].state = "pending"

\* C6: a press of the button of a task that is pending or completed in the
\* list changes nothing and fires no event.
C6_PressGuarded ==
    [][\A n \in Names :
        (/\ last'.op \in {"press", "press_ignored"}
         /\ last'.name = n
         /\ FindTask(data, heap, n) # 0
         /\ heap[FindTask(data, heap, n)].state \in {"pending", "completed"}) =>
            /\ heap' = heap
            /\ data' = data
            /\ ~Sent(last', "fire")]_vars

\* C7: no task is pending in the list a successful reconciliation publishes.
C7_PendingDoesNotSurvive ==
    last.op = "refresh" => \A i \in DOMAIN data : heap[data[i]].state # "pending"

\* The last dict of the list with that name, 0 when the list has none.
PreviousOf(tasks, h, task_name) ==
    IF task_name \in NamesOf(tasks, h)
    THEN tasks[CHOOSE i \in DOMAIN tasks :
                   /\ h[tasks[i]].task = task_name
                   /\ \A j \in DOMAIN tasks : h[tasks[j]].task = task_name => j <= i]
    ELSE 0

\* The first occurrence of a cron cell strictly after the anchor of a
\* last_completed cell is at or before t.
OccurrenceReached(cron, stamp, t) ==
    /\ cron \in {EverySecond, EveryTwoSeconds}
    /\ \E occ \in (-1)..t :
        /\ occ % (IF cron = EverySecond THEN 1 ELSE 2) = 0
        /\ occ > (IF stamp = "" THEN -1 ELSE FromIso(stamp))

\* C8: a successful reconciliation publishes one dict per fetched row, in row
\* order and of no other name; each takes task, assigned_to, cron_frequency
\* (None for an empty cell) and last_completed from its row, and state and
\* visible from the previous dict of its name (not_completed and visible when
\* there is none), unless the task is made due.
C8_MergeCarriesState ==
    [][last'.op = "refresh" =>
        /\ Len(data') = Len(sheet)
        /\ \A i, j \in DOMAIN data' : i # j => data'[i] # data'[j]
        /\ \A i \in DOMAIN sheet :
            LET task == heap'[data'[i]]
                previous_task == PreviousOf(data, heap, sheet[i].task)
                state == IF previous_task = 0 THEN "not_completed"
                         ELSE heap[previous_task].state
                visible == IF previous_task = 0 THEN TRUE
                           ELSE heap[previous_task].visible
            IN  /\ task.task = sheet[i].task
                /\ task.assigned_to = sheet[i].assigned_to
                /\ task.cron_frequency = IF sheet[i].cron_frequency = "" THEN None
                                         ELSE sheet[i].cron_frequency
                /\ task.last_completed = sheet[i].last_completed
                /\ \/ task.state = state /\ task.visible = visible
                   \/ /\ state = "completed"
                      /\ OccurrenceReached(sheet[i].cron_frequency,
                                           sheet[i].last_completed, now)
                      /\ task.state = "not_completed"
                      /\ task.visible = TRUE]_vars

\* C8 witness: a reconciliation has published two tasks after a row was
\* added or deleted: one kept completed, one pending.
C8_Witness ==
    /\ last.op = "refresh"
    /\ edits = 1
    /\ Len(data) = 2
    /\ \E i, j \in DOMAIN data :
        /\ heap[data[i]].state = "completed"
        /\ heap[data[j]].state = "pending"

\* C9: in a reconciliation a task whose carried state is completed becomes
\* not_completed and visible exactly when its row has a cron expression whose
\* first occurrence strictly after the row's last_completed (after the
\* far-past sentinel when the cell is empty) is at or before now; otherwise it
\* stays completed and hidden.
C9_ReactivationExactlyWhenDue ==
    [][last'.op = "refresh" =>
        \A i \in DOMAIN sheet :
            LET previous_task == PreviousOf(data, heap, sheet[i].task)
            IN  (previous_task # 0 /\ heap[previous_task].state = "completed") =>
                    IF OccurrenceReached(sheet[i].cron_frequency,
                                         sheet[i].last_completed, now)
                    THEN /\ heap'[data'[i]].state = "not_completed"
                         /\ heap'[data'[i]].visible = TRUE
                    ELSE /\ heap'[data'[i]].state = "completed"
                         /\ heap'[data'[i]].visible = FALSE]_vars

\* C9 witness: one reconciliation has made a stamped recurring task due and
\* kept another task completed.
C9_Witness ==
    /\ last.op = "refresh"
    /\ \E i, j \in DOMAIN data :
        /\ heap[data[i]].state = "not_completed"
        /\ heap[data[i]].last_completed # ""
        /\ last.eff[1] = LogDue(heap[data[i]].task)
        /\ heap[data[j]].state = "completed"
        /\ heap[data[j]].visible = FALSE

\* C10: called with no cron expression (None or the empty string),
\* cron_run_required answers True exactly when last_completed is None or the
\* empty string.
C10_OneTimeDueIffNeverCompleted ==
    (call.pc = "returned" /\ call.cron_expression \in {None, ""}) =>
        (call.result <=> call.last_completed_str \in {None, ""})

\* A cron_frequency cell that is neither empty nor a cron expression.
Malformed(cron) == cron \notin {"", EverySecond, EveryTwoSeconds}

\* C11: a reconciliation whose fetched rows hold a malformed cron expression
\* still publishes one dict per row and raises nothing; the malformed task
\* keeps the state and visible carried over from its previous dict (it is
\* never made due), and every other task is carried over or made due by its
\* own row alone, as it would be without the malformed row.
C11_MalformedCronNotDue ==
    [][(/\ last'.op = "refresh"
        /\ \E k \in DOMAIN sheet : Malformed(sheet[k].cron_frequency)) =>
        /\ last'.eff[Len(last'.eff)] = Publish
        /\ ~Sent(last', "raise")
        /\ Len(data') = Len(sheet)
        /\ \A i \in DOMAIN sheet :
            LET previous_task == PreviousOf(data, heap, sheet[i].task)
                state == IF previous_task = 0 THEN "not_completed"
                         ELSE heap[previous_task].state
                visible == IF previous_task = 0 THEN TRUE
                           ELSE heap[previous_task].visible
                due == /\ state = "completed"
                       /\ ~Malformed(sheet[i].cron_frequency)
                       /\ OccurrenceReached(sheet[i].cron_frequency,
                                            sheet[i].last_completed, now)
            IN  /\ heap'[data'[i]].task = sheet[i].task
                /\ heap'[data'[i]].cron_frequency =
                       (IF sheet[i].cron_frequency = "" THEN None
                        ELSE sheet[i].cron_frequency)
                /\ heap'[data'[i]].state = (IF due THEN "not_completed" ELSE state)
                /\ heap'[data'[i]].visible = (IF due THEN TRUE ELSE visible)]_vars

\* C11 witness: one reconciliation has kept a completed task with a malformed
\* cron expression completed and hidden, and made another task due.
C11_Witness ==
    /\ last.op = "refresh"
    /\ \E i, j \in DOMAIN data :
        /\ Malformed(sheet[i].cron_frequency)
        /\ heap[data[i]].cron_frequency = sheet[i].cron_frequency
        /\ heap[data[i]].state = "completed"
        /\ heap[data[i]].visible = FALSE
        /\ heap[data[j]].state = "not_completed"
        /\ Sent(last, "log")
        /\ last.eff[1] = LogDue(heap[data[j]].task)

\* C12: a timer callback that begins when stop_refresh is set returns at
\* once: it starts no reconciliation, leaves the list and its dicts as they
\* are and publishes nothing.
C12_NoTickAfterStop ==
    [][(sched.stop_refresh /\ last'.op \in {"tick_start", "tick_skipped"}) =>
        /\ last'.op = "tick_skipped"
        /\ sched'.tick.pc = "idle"
        /\ recon' = recon
        /\ data' = data
        /\ heap' = heap
        /\ sheet' = sheet
        /\ ~Sent(last', "publish")]_vars

\* C12 witness: the timer has fired after the unload and was skipped.
C12_Witness ==
    /\ last.op = "tick_skipped"
    /\ sched.stop_refresh
    /\ sched.tick.pc = "idle"

\* C13: a scheduled refresh that ends, by a merge or by a failed fetch, has
\* registered the next timer; so, the timer firing when due and every fetch
\* ending, either stop_refresh is set at some time or timer callbacks start
\* reconciliations again and again.
C13_TickAlwaysRescheduled ==
    /\ [][/\ last'.op \in {"tick", "tick_failed"} =>
                (sched.tick.pc = "fetching" /\ sched'.tick.pc = "idle" /\ sched'.timer)
          /\ (sched.tick.pc = "fetching" /\ sched'.tick.pc = "idle") => sched'.timer]_vars
    /\ ([]<>(last.op = "tick_start") \/ <>(sched.stop_refresh))

\* C13 witness: a scheduled refresh has failed while stop_refresh is not set,
\* and the next timer is registered.
C13_Witness ==
    /\ last.op = "tick_failed"
    /\ ~sched.stop_refresh
    /\ sched.timer
    /\ ~last_update_success

\* C14: get_tasks on a worksheet that has rows and whose header lacks one of
\* task, cron_frequency and last_completed raises the error of a missing
\* required column.
C14_MissingColumnFails ==
    (/\ call.pc = "returned"
     /\ Len(call.ws) > 0
     /\ ~({"task", "cron_frequency", "last_completed"} \subseteq call.header)) =>
        call.result.raised = "Missing required column(s)"

\* With every column in the header, get_tasks_from is get_tasks.
FetchAgrees ==
    (call.pc = "returned" /\ call.header = Columns /\ Len(call.ws) > 0) =>
        (call.result.raised = None /\ call.result.tasks = get_tasks(call.ws))

\* C15: a completion that runs while a reconciliation is between its start
\* (the index of the previous dicts is built) and its merge is kept by that
\* merge: the task it completed is completed and hidden in the list the
\* reconciliation publishes.
C15_CompletionDuringRefreshKept ==
    [][(/\ last.op = "complete"
        /\ recon.pc = "fetching"
        /\ last'.op = "refresh") =>
        \A i \in DOMAIN data' :
            heap'[data'[i]].task = last.name =>
                /\ heap'[data'[i]].state = "completed"
                /\ heap'[data'[i]].visible = FALSE]_vars

\* C16: once stop_refresh is set no timer is registered: a step taken with
\* stop_refresh set registers none, also the end of a scheduled refresh that
\* was in flight when the flag was set.
C16_NoTimerAfterStop ==
    [][sched.stop_refresh => (sched'.timer => sched.timer)]_vars

\* C17: no two reconciliations are in flight at a time: the one of a timer
\* callback and the one of the refresh_tasks service are never both between
\* their start and their merge.
C17_OneRefreshInFlight ==
    ~(sched.tick.pc = "fetching" /\ recon.pc = "fetching")

\* C18: a task of the list that is completed and is in the list after a step
\* is not_completed after it only when the step is a reconciliation and the
\* row of the task has a cron expression whose first occurrence after the
\* row's last_completed is at or before now.
C18_OnlyReactivationReopens ==
    [][\A n \in Names :
        (/\ FindTask(data, heap, n) # 0
         /\ \A i \in DOMAIN data :
                heap[data[i]].task = n => heap[data[i]].state = "completed"
         /\ \E i \in DOMAIN data' :
                heap'[data'[i]].task = n /\ heap'[data'[i]].state = "not_completed") =>
            /\ last'.op = "refresh"
            /\ \E k \in DOMAIN sheet :
                /\ sheet[k].task = n
                /\ OccurrenceReached(sheet[k].cron_frequency,
                                     sheet[k].last_completed, now)]_vars

\* C19: a completion, a reopening and a press leave every dict of the list
\* held before the step as it was: whoever holds that list reads the same
\* state, visible and last_completed in it after the step.  (A
\* reconciliation builds its dicts from the fetched rows and writes to no
\* dict of the list before it; the dicts of a list it replaced are held by
\* nobody in this model.)
C19_SnapshotUnmodified ==
    [][last'.op \in {"complete", "incomplete", "press"} =>
        \A i \in DOMAIN data :
            /\ heap'[data[i]].state = heap[data[i]].state
            /\ heap'[data[i]].visible = heap[data[i]].visible
            /\ heap'[data[i]].last_completed = heap[data[i]].last_completed]_vars

\* C20: the store is written to only by the store calls of a completion of a
\* task that was found: the worksheet changes only by such a step (or by a
\* hand edit), a cell write or a row append is sent only by such a step, the
\* cell written is last_completed and takes the timestamp of the completion,
\* never the word pending, and the row appended records "completed".
C20_OnlyCompletionWrites ==
    [][/\ StoreWrite(last') =>
            /\ last'.op \in {"complete_done", "complete_log_failed"}
            /\ comp.pc = "write"
            /\ last'.name = comp.task_name
            /\ comp.stamp = IsoFormat(FromIso(comp.stamp))
       /\ sheet' # sheet =>
            /\ last'.op \in {"complete_done", "complete_log_failed", "edit"}
            /\ last'.op # "edit" =>
                \E k \in DOMAIN sheet :
                    /\ sheet' = [sheet EXCEPT ![k].last_completed = comp.stamp]
                    /\ sheet[k].task = comp.task_name
       /\ \A i \in DOMAIN last'.eff :
            /\ last'.eff[i].e = "update_cell" =>
                /\ last'.eff[i].a[2] = "last_completed"
                /\ last'.eff[i].a[3] \in {IsoFormat(t) : t \in Times}
            /\ last'.eff[i].e = "append_row" => last'.eff[i].a[4] = "completed"
       /\ last'.op \in {"refresh", "refresh_failed", "refresh_start", "incomplete",
                        "incomplete_not_found", "press", "press_ignored",
                        "complete", "complete_not_found"} =>
            (sheet' = sheet /\ ~StoreWrite(last'))]_vars

\* C20 witness: the list holds a pending task, and a completion of another
\* task has written its cell and appended its row.
C20_Witness ==
    /\ last.op = "complete_done"
    /\ StoreWrite(last)
    /\ \E i \in DOMAIN data : heap[data[i]].state = "pending"
    /\ \E k \in DOMAIN sheet : sheet[k].last_completed # ""

SecondsOf(dt) == ((dt.day * 24 + dt.hour) * 60 + dt.minute) * 60 + dt.second

\* C22: the next tick time is strictly later than the time of the call and
\* at most five minutes later, its second and microsecond are zero and its
\* minute is a multiple of five, also when it lies in the next hour or day;
\* no five-minute boundary lies between the time of the call and it.
C22_NextBoundary ==
    call.pc = "returned" =>
        LET t == call.utcnow
            next_run == call.next_run
            ahead == SecondsOf(next_run) - SecondsOf(t)
        IN  /\ next_run.second = 0
            /\ next_run.microsecond = 0
            /\ next_run.minute \in {0, 5, 10, 15, 20, 25, 30, 35, 40, 45, 50, 55}
            /\ next_run.hour \in 0..23
            /\ ahead > 0
            /\ ahead <= 300
            /\ ~\E b \in 1..(ahead - 1) : (SecondsOf(t) + b) % 300 = 0
            /\ sched.timer

\* C22 witness: a call in the last five minutes of the day, off the second,
\* has returned the first boundary of the next day.
C22_Witness ==
    /\ call.pc = "returned"
    /\ call.utcnow.hour = 23
    /\ call.utcnow.minute = 57
    /\ call.utcnow.microsecond = 999999
    /\ call.next_run = [day |-> 1, hour |-> 0, minute |-> 0, second |-> 0,
                        microsecond |-> 0]

\* C23: in every published list, whatever reconciliations, presses,
\* completions and reopens led to it, a record is hidden (visible false)
\* exactly when its state is completed.
C23_HiddenIffCompleted ==
    \A i \in 1..Len(data) :
        (heap[data[i]].visible = FALSE) <=> (heap[data[i]].state = "completed")

\* C23 witness: a reconciliation has just published a list holding a
\* completed, hidden record next to a pending, visible one.
C23_Witness ==
    /\ last.op = "refresh"
    /\ \E i, j \in 1..Len(data) :
           /\ heap[data[i]].state = "completed"
           /\ heap[data[i]].visible = FALSE
           /\ heap[data[j]].state = "pending"
           /\ heap[data[j]].visible = TRUE

\* The rows of a worksheet, and the dicts of a list, of one name.
RowsNamed(ws, task_name) == {i \in DOMAIN ws : ws[i].task = task_name}

DictsNamed(tasks, h, task_name) == {j \in DOMAIN tasks : h[tasks[j]].task = task_name}

\* The task of row i is recurring, has one row and one dict, and its dict is
\* completed with the stamp the store holds for it: a completion of it has
\* been written and neither reopened nor overwritten since.
CompletionStored(i) ==
    /\ RowsNamed(sheet, sheet[i].task) = {i}
    /\ IsCron(sheet[i].cron_frequency)
    /\ IsIso(sheet[i].last_completed)
    /\ FromIso(sheet[i].last_completed) <= now
    /\ \E j \in DOMAIN data :
        /\ DictsNamed(data, heap, sheet[i].task) = {j}
        /\ heap[data[j]].state = "completed"
        /\ heap[data[j]].last_completed = sheet[i].last_completed

\* C24: a completion sticks until the next occurrence.  When
\* async_complete_task of a recurring task of unique name ends with both
\* store calls made and no reopen in between, the store holds the stamp of
\* the completion for the completed dict; and from such a state every
\* successful reconciliation publishes the task completed while the first
\* occurrence strictly after the stamp lies after now, and not_completed
\* once that occurrence is at or before now.
C24_CompletionSticks ==
    [][/\ (/\ last'.op = "complete_done"
           /\ Sent(last', "update_cell")
           /\ recon.pc = "idle") =>
              \A i \in DOMAIN sheet :
                  (/\ sheet[i].task = comp.task_name
                   /\ RowsNamed(sheet, comp.task_name) = {i}
                   /\ IsCron(sheet[i].cron_frequency)
                   /\ \E j \in DOMAIN data :
                       /\ DictsNamed(data, heap, comp.task_name) = {j}
                       /\ heap[data[j]].state = "completed"
                       /\ heap[data[j]].last_completed = comp.stamp) =>
                      /\ CompletionStored(i)'
                      /\ sheet'[i].last_completed = comp.stamp
       /\ last'.op = "refresh" =>
              \A i \in DOMAIN sheet :
                  CompletionStored(i) =>
                      /\ heap'[data'[i]].task = sheet[i].task
                      /\ IF OccurrenceReached(sheet[i].cron_frequency,
                                              sheet[i].last_completed, now)
                         THEN heap'[data'[i]].state = "not_completed"
                         ELSE /\ heap'[data'[i]].state = "completed"
                              /\ CompletionStored(i)']_vars

\* C24 witness: one reconciliation at time 1 has published a recurring task
\* completed at time 0 as not_completed, its occurrence reached, and a
\* recurring task completed at time 1 as completed still.
C24_Witness ==
    /\ last.op = "refresh"
    /\ now = 1
    /\ \E i, j \in DOMAIN data :
        /\ heap[data[i]].cron_frequency = EverySecond
        /\ heap[data[i]].last_completed = IsoFormat(0)
        /\ heap[data[i]].state = "not_completed"
        /\ heap[data[j]].cron_frequency = EverySecond
        /\ heap[data[j]].last_completed = IsoFormat(1)
        /\ heap[data[j]].state = "completed"
        /\ heap[data[i]].task # heap[data[j]].task

====
